---------------------------- MODULE Spec2Model ----------------------------
(***************************************************************************)
(* Model of the http-import esbuild plugin (src/src/httpImportEsbuildPlugin.ts). *)
(*                                                                         *)
(* Strings are TLA+ strings; a character is a string of length 1.  The     *)
(* first part of the module gives the JavaScript string operations and the *)
(* URL parser the plugin calls, the second part the loader inference, the  *)
(* third part the plugin's three hooks run by a host that walks a module   *)
(* graph and memoizes modules by (namespace, path).                        *)
(***************************************************************************)
EXTENDS Integers, Sequences, FiniteSets, TLC

(***************************************************************************)
(* JavaScript values and string operations                                 *)
(***************************************************************************)

\* null / undefined: what ?? treats as empty (src line 36, 67-70)
Nullish == "<nullish>"

\* What a call that throws leaves in place of a result
Throw == "<throws>"

\* s[i] as a one-character string (1-based)
CharAt(s, i) == SubSeq(s, i, i)

\* s.slice(i) with a 1-based start: the characters from position i on
SliceFrom(s, i) == SubSeq(s, i, Len(s))

\* s.startsWith(p)
StartsWith(s, p) == Len(s) >= Len(p) /\ SubSeq(s, 1, Len(p)) = p

\* s.indexOf(c) for a one-character c, 1-based; 0 when c does not occur
IndexOf(s, c) ==
  LET hits == {i \in 1..Len(s) : CharAt(s, i) = c}
  IN  IF hits = {} THEN 0 ELSE CHOOSE i \in hits : \A j \in hits : i <= j

\* s.lastIndexOf(c), 1-based; 0 when c does not occur
LastIndexOf(s, c) ==
  LET hits == {i \in 1..Len(s) : CharAt(s, i) = c}
  IN  IF hits = {} THEN 0 ELSE CHOOSE i \in hits : \A j \in hits : i >= j

\* Character classes, and the lower-case form of each upper-case letter
UpperToLower ==
  [A |-> "a", B |-> "b", C |-> "c", D |-> "d", E |-> "e", F |-> "f", G |-> "g", H |-> "h", I |-> "i", J |-> "j", K |-> "k", L |-> "l", M |-> "m",
   N |-> "n", O |-> "o", P |-> "p", Q |-> "q", R |-> "r", S |-> "s", T |-> "t", U |-> "u", V |-> "v", W |-> "w", X |-> "x", Y |-> "y", Z |-> "z"]

LowerLetters == {UpperToLower[c] : c \in DOMAIN UpperToLower}
DigitChars   == {"0", "1", "2", "3", "4", "5", "6", "7", "8", "9"}

IsAlpha(c) == c \in DOMAIN UpperToLower \/ c \in LowerLetters
IsDigit(c) == c \in DigitChars

LowerChar(c) == IF c \in DOMAIN UpperToLower THEN UpperToLower[c] ELSE c

\* s.toLowerCase()
ToLowerCase(s) ==
  LET lower[i \in 0..Len(s)] ==
        IF i = 0 THEN "" ELSE lower[i - 1] \o LowerChar(CharAt(s, i))
  IN  lower[Len(s)]

IsSpace(c) == c = " "

\* s.trim()
Trim(s) ==
  LET inked == {i \in 1..Len(s) : ~IsSpace(CharAt(s, i))}
  IN  IF inked = {} THEN ""
      ELSE SubSeq(s, CHOOSE i \in inked : \A j \in inked : i <= j,
                     CHOOSE i \in inked : \A j \in inked : i >= j)

\* s.split(c)[0]: the text before the first c, all of s when there is none
SplitFirst(s, c) ==
  LET k == IndexOf(s, c) IN IF k = 0 THEN s ELSE SubSeq(s, 1, k - 1)

\* s.split(c).pop(): the text after the last c, all of s when there is none
SplitLast(s, c) == SliceFrom(s, LastIndexOf(s, c) + 1)

\* s.split(c) as a sequence of segments
Split(s, c) ==
  LET seps == {i \in 1..Len(s) : CharAt(s, i) = c}
      n    == Cardinality(seps)
      \* the position of the j-th separator; 0 and Len(s) + 1 close the ends
      at(j) == IF j = 0 THEN 0
               ELSE IF j = n + 1 THEN Len(s) + 1
               ELSE CHOOSE i \in seps : Cardinality({k \in seps : k < i}) = j - 1
  IN  [j \in 1..(n + 1) |-> SubSeq(s, at(j - 1) + 1, at(j) - 1)]

\* segs.join(c)
Join(segs, c) ==
  LET joined[i \in 0..Len(segs)] ==
        IF i = 0 THEN ""
        ELSE IF i = 1 THEN segs[1]
        ELSE joined[i - 1] \o c \o segs[i]
  IN  joined[Len(segs)]

(***************************************************************************)
(* new URL(input, base): the URL parser of the platform, for inputs over   *)
(* letters, digits and . / : ? # _ - (no userinfo, no percent-encoding,    *)
(* no backslashes).  A parsed URL is a record; NoURL is a parse failure    *)
(* (the constructor throws a TypeError) and also "no base given".          *)
(***************************************************************************)
NoURL == [ok |-> FALSE]

SpecialSchemes == {"http", "https", "ftp", "ws", "wss", "file"}

DefaultPort(scheme) ==
  CASE scheme = "http"  -> "80"
    [] scheme = "ws"    -> "80"
    [] scheme = "https" -> "443"
    [] scheme = "wss"   -> "443"
    [] scheme = "ftp"   -> "21"
    [] OTHER            -> ""

IsSchemeChar(c) == IsAlpha(c) \/ IsDigit(c) \/ c \in {"+", "-", "."}

\* Position of the ':' ending a scheme at the start of s; 0 when s starts
\* with no scheme
SchemeEnd(s) ==
  LET k == IndexOf(s, ":")
  IN  IF k > 1 /\ IsAlpha(CharAt(s, 1))
         /\ \A i \in 1..(k - 1) : IsSchemeChar(CharAt(s, i))
      THEN k ELSE 0

\* s without its leading slashes
SkipSlashes(s) ==
  LET other == {i \in 1..Len(s) : CharAt(s, i) # "/"}
  IN  IF other = {} THEN ""
      ELSE SliceFrom(s, CHOOSE i \in other : \A j \in other : i <= j)

\* Dot-segment removal over the segments of a path: "." is dropped, ".."
\* drops the segment before it, and a final "." or ".." leaves a trailing "/"
RemoveDots(segs) ==
  LET n == Len(segs)
      out[i \in 0..n] ==
        IF i = 0 THEN << >>
        ELSE LET prev == out[i - 1]
                 up   == IF prev = << >> THEN prev ELSE SubSeq(prev, 1, Len(prev) - 1)
             IN  IF segs[i] = ".." THEN (IF i = n THEN up \o <<"">> ELSE up)
                 ELSE IF segs[i] = "." THEN (IF i = n THEN prev \o <<"">> ELSE prev)
                 ELSE prev \o <<segs[i]>>
  IN  out[n]

\* A path-absolute string ("/a/./b") normalised ("/a/b"); "" becomes "/"
NormalizePath(p) ==
  LET segs == IF p = "" THEN <<"">> ELSE Split(SliceFrom(p, 2), "/")
  IN  "/" \o Join(RemoveDots(segs), "/")

\* input = pathAndQuery, already without its fragment
PathOf(s)  == SplitFirst(s, "?")
QueryOf(s) == LET k == IndexOf(s, "?") IN IF k = 0 THEN "" ELSE SliceFrom(s, k)

\* host[:port] of a special scheme: the host is lower-cased, a default port
\* is dropped, an empty host is a failure (except for file:)
ParseAuthority(scheme, auth, rest, frag) ==
  LET k    == LastIndexOf(auth, ":")
      host == ToLowerCase(IF k = 0 THEN auth ELSE SubSeq(auth, 1, k - 1))
      port == IF k = 0 THEN "" ELSE SliceFrom(auth, k + 1)
  IN  IF host = "" /\ scheme # "file" THEN NoURL
      ELSE IF \E i \in 1..Len(port) : ~IsDigit(CharAt(port, i)) THEN NoURL
      ELSE [ok |-> TRUE, scheme |-> scheme, host |-> host,
            port |-> IF port = DefaultPort(scheme) THEN "" ELSE port,
            opaque |-> FALSE,
            pathname |-> NormalizePath(PathOf(rest)),
            search |-> QueryOf(rest), hash |-> frag]

\* "host/path?query" after the slashes of "scheme://"
ParseAfterSlashes(scheme, s, frag) ==
  LET k == IF IndexOf(s, "/") = 0
             THEN (IF IndexOf(s, "?") = 0 THEN Len(s) + 1 ELSE IndexOf(s, "?"))
             ELSE IF IndexOf(s, "?") = 0 THEN IndexOf(s, "/")
             ELSE IF IndexOf(s, "?") < IndexOf(s, "/") THEN IndexOf(s, "?")
             ELSE IndexOf(s, "/")
  IN  ParseAuthority(scheme, SubSeq(s, 1, k - 1), SliceFrom(s, k), frag)

\* A reference without a scheme, resolved against a base with a hierarchical
\* path
ParseRelative(s, frag, base) ==
  IF s = "" THEN [base EXCEPT !.hash = frag]
  ELSE IF StartsWith(s, "//")
    THEN ParseAfterSlashes(base.scheme,
                           IF base.scheme = "file" THEN SliceFrom(s, 3) ELSE SkipSlashes(s),
                           frag)
  ELSE IF CharAt(s, 1) = "/"
    THEN [base EXCEPT !.pathname = NormalizePath(PathOf(s)),
                      !.search = QueryOf(s), !.hash = frag]
  ELSE IF CharAt(s, 1) = "?"
    THEN [base EXCEPT !.search = s, !.hash = frag]
  ELSE LET dir == SubSeq(base.pathname, 1, LastIndexOf(base.pathname, "/"))
       IN  [base EXCEPT !.pathname = NormalizePath(dir \o PathOf(s)),
                        !.search = QueryOf(s), !.hash = frag]

\* new URL(input, base); base = NoURL stands for new URL(input)
ParseURL(input, base) ==
  LET h    == IndexOf(input, "#")
      frag == IF h = 0 THEN "" ELSE SliceFrom(input, h)
      s    == IF h = 0 THEN input ELSE SubSeq(input, 1, h - 1)
      k    == SchemeEnd(s)
      sch  == ToLowerCase(SubSeq(s, 1, k - 1))
      rest == SliceFrom(s, k + 1)
  IN  IF k = 0
        THEN IF ~base.ok THEN NoURL
             ELSE IF base.opaque
               THEN (IF s = "" /\ h > 0 THEN [base EXCEPT !.hash = frag] ELSE NoURL)
             ELSE ParseRelative(s, frag, base)
      ELSE IF sch \in SpecialSchemes
        THEN IF base.ok /\ base.scheme = sch /\ ~StartsWith(rest, "//") /\ sch # "file"
               THEN ParseRelative(rest, frag, base)
             ELSE ParseAfterSlashes(sch,
                                    IF sch = "file"
                                      THEN (IF StartsWith(rest, "//") THEN SliceFrom(rest, 3) ELSE rest)
                                      ELSE SkipSlashes(rest),
                                    frag)
      ELSE [ok |-> TRUE, scheme |-> sch, host |-> "", port |-> "", opaque |-> TRUE,
            pathname |-> PathOf(rest), search |-> QueryOf(rest), hash |-> frag]

\* url.toString() / url.href
Href(u) ==
  IF u.opaque THEN u.scheme \o ":" \o u.pathname \o u.search \o u.hash
  ELSE u.scheme \o "://" \o u.host \o (IF u.port = "" THEN "" ELSE ":" \o u.port)
       \o u.pathname \o u.search \o u.hash

(***************************************************************************)
(* The inputs of a run                                                     *)
(***************************************************************************)
Builds  == {"b1", "b2"}
Plugins == {"p1", "p2"}

\* Modules one build may hold in the plugin's namespace
MaxModules == 3

\* One run's inputs: the plugin object each build was given; what the
\* loaderResolver the plugin objects were created with may return ({} when
\* none was configured); the imports of each build's entry point; the imports
\* a remote module may contain; and what the network may answer: the
\* statuses, the content-type headers, the final URL a response reports
\* ("none": a test double's empty string, "self": the requested URL, or one
\* of the redirect targets), and whether requests may fail or time out.
OneBuild(imports) == [b \in Builds |-> IF b = "b1" THEN imports ELSE {}]

RedirectRun ==
  [pluginOf |-> [b \in Builds |-> "p1"], resolver |-> {},
   entry |-> OneBuild({"https://cdn/pkg"}),
   inner |-> {"./util.js", "react", "https://cdn/pkg/util.js"},
   statuses |-> {200, 404}, ctypes |-> {"application/javascript"},
   finals |-> {"none", "self"}, redirects |-> {"https://cdn/pkg/index.js"},
   faults |-> TRUE]

DedupeRun ==
  [pluginOf |-> [b \in Builds |-> "p1"], resolver |-> {},
   entry |-> OneBuild({"https://cdn/a.js", "https://cdn/b.js", "https://cdn/./b.js"}),
   inner |-> {"./b.js", "https://cdn/b.js"},
   statuses |-> {200, 299, 300, 404}, ctypes |-> {"application/javascript"},
   finals |-> {"none", "self"}, redirects |-> {},
   faults |-> TRUE]

SharedRun ==
  [pluginOf |-> [b \in Builds |-> "p1"], resolver |-> {},
   entry |-> [b \in Builds |-> {"https://cdn/pkg"}],
   inner |-> {"./util.js"},
   statuses |-> {200}, ctypes |-> {"application/javascript"},
   finals |-> {"self"}, redirects |-> {"https://cdn/pkg/index.js"},
   faults |-> FALSE]

\* A remote module whose imports are absolute references of other schemes
SchemeRun ==
  [pluginOf |-> [b \in Builds |-> "p1"], resolver |-> {},
   entry |-> OneBuild({"https://cdn/a.js"}),
   inner |-> {"data:text/javascript,1", "ftp://files/lib.js"},
   statuses |-> {200}, ctypes |-> {"application/javascript"},
   finals |-> {"self"}, redirects |-> {},
   faults |-> TRUE]

LoaderPaths ==
  {"https://example.com/mod.ts", "https://example.com/mod",
   "https://example.com/a.constructor", "https://example.com/lib/.css",
   "https://example.com/v1.2/Main.TSX?raw=x.json#frag.css"}

LoaderContentTypes ==
  {Nullish, "application/javascript", "application/typescript; charset=utf-8",
   "application/octet-stream", " Text/CSS ;q=1"}

LoaderRun(path, results) ==
  [pluginOf |-> [b \in Builds |-> "p1"], resolver |-> results,
   entry |-> OneBuild({path}),
   inner |-> {},
   statuses |-> {200}, ctypes |-> LoaderContentTypes,
   finals |-> {"none"}, redirects |-> {},
   faults |-> TRUE]

Scenarios ==
  {RedirectRun, DedupeRun, SharedRun, SchemeRun}
  \cup {LoaderRun(path, results) : path \in LoaderPaths, results \in {{}, {Nullish, "css"}}}

(***************************************************************************)
(* The URLs a run can meet, parsed and resolved once: tables of the parser *)
(* above over the inputs, so that a step looks a result up                 *)
(***************************************************************************)
AllImports == UNION {sc.inner : sc \in Scenarios}

SeedUrls ==
  UNION {sc.redirects \cup UNION {sc.entry[b] : b \in Builds} : sc \in Scenarios}

HrefOrThrow(u) == IF u.ok THEN Href(u) ELSE Throw

\* The serialisation of a parsed URL and what each import resolves to
\* against it
UrlsAround(base) ==
  {HrefOrThrow(base)} \cup {HrefOrThrow(ParseURL(p, base)) : p \in AllImports}

\* S with what is one parse or one resolution away from it
UrlsFrom(S) == S \cup UNION {UrlsAround(ParseURL(u, NoURL)) : u \in S}

KnownUrls == UrlsFrom(UrlsFrom(SeedUrls))

\* The parser's results for the URLs and imports of the scenarios, computed
\* once: new URL(u) for each u of S, and new URL(p, u).toString() for each
\* import p against each parsed u
ParseAll(S) == [u \in S |-> ParseURL(u, NoURL)]

ResolveAll(parsed) ==
  [u \in DOMAIN parsed |-> [p \in AllImports |-> HrefOrThrow(ParseURL(p, parsed[u]))]]

ParsedUrl == ParseAll(KnownUrls)

ResolvedUrl == ResolveAll(ParsedUrl)

\* table[key], or the value computed afresh for a key the table lacks
Memo(table, key, fresh) == IF key \in DOMAIN table THEN table[key] ELSE fresh

\* new URL(input)
NewURL(input) == Memo(ParsedUrl, input, ParseURL(input, NoURL))

\* new URL(path, base).toString(); Throw when the constructor throws
ResolveUrl(path, base) ==
  Memo(Memo(ResolvedUrl, base, << >>), path,
       HrefOrThrow(ParseURL(path, ParseURL(base, NoURL))))

(***************************************************************************)
(* Loader inference (src lines 66-123)                                     *)
(***************************************************************************)

\* The Loader union the plugin's tables produce
Loaders == {"js", "ts", "jsx", "tsx", "json", "css", "text"}

\* const EXT_TO_LOADER: Record<string, Loader> = { ... }: the own keys
EXT_TO_LOADER ==
  [js |-> "js", mjs |-> "js", cjs |-> "js",
   ts |-> "ts", mts |-> "ts", cts |-> "ts",
   jsx |-> "jsx", tsx |-> "tsx", json |-> "json", css |-> "css", txt |-> "text"]

\* EXT_TO_LOADER is an object literal, so obj[key] also finds what the
\* object inherits from Object.prototype: a function or object, never a
\* Loader string and never null/undefined
ObjectPrototypeKeys ==
  {"constructor", "__proto__", "toString", "toLocaleString", "valueOf",
   "hasOwnProperty", "isPrototypeOf", "propertyIsEnumerable"}

Inherited(key) == "<Object.prototype." \o key \o ">"

\* obj[key] on a plain object
PropertyGet(obj, key) ==
  IF key \in DOMAIN obj THEN obj[key]
  ELSE IF key \in ObjectPrototypeKeys THEN Inherited(key)
  ELSE Nullish

\* Lines 92-97 of loaderFromPathname: the lower-cased text after the last
\* dot of the last segment; Nullish where the function returns undefined
\* (no dot, or a dot that starts the segment)
ExtensionAfter(segment, dot) ==
  IF dot <= 0 THEN Nullish ELSE ToLowerCase(SliceFrom(segment, dot + 2))

ExtensionOf(pathname) ==
  ExtensionAfter(SplitLast(pathname, "/"),
                 LastIndexOf(SplitLast(pathname, "/"), ".") - 1)

\* EXT_TO_LOADER[ext] (src line 99)
LoaderOfExtension(ext) ==
  IF ext = Nullish THEN Nullish ELSE PropertyGet(EXT_TO_LOADER, ext)

\* function loaderFromPathname(pathname)
loaderFromPathname(pathname) == LoaderOfExtension(ExtensionOf(pathname))

\* An inference that would compare the whole header value, parameters
\* included
loaderFromContentTypeWholeHeader(contentType) ==
  IF contentType = Nullish THEN Nullish
  ELSE IF ToLowerCase(contentType) \in {"application/javascript", "text/javascript"} THEN "js"
  ELSE IF ToLowerCase(contentType) \in {"application/typescript", "text/typescript"} THEN "ts"
  ELSE Nullish

\* function loaderFromContentType(contentType)
loaderFromContentType(contentType) ==
  IF contentType = Nullish THEN Nullish
  ELSE LET t == ToLowerCase(Trim(SplitFirst(contentType, ";")))
       IN  CASE t \in {"application/javascript", "text/javascript"} -> "js"
             [] t \in {"application/typescript", "text/typescript"} -> "ts"
             [] t \in {"application/json", "text/json"}             -> "json"
             [] t = "text/css"                                      -> "css"
             [] t = "text/plain"                                    -> "text"
             [] OTHER                                               -> Nullish

\* a ?? b
Coalesce(a, b) == IF a = Nullish THEN b ELSE a

\* new URL(args.path).pathname (src line 68)
PathnameOf(path) == NewURL(path).pathname

\* A chain that would consult the Content-Type before the extension
SelectLoaderContentTypeFirst(override, path, contentType) ==
  Coalesce(override,
    Coalesce(loaderFromContentType(contentType),
      Coalesce(loaderFromPathname(PathnameOf(path)), "js")))

\* The chain of src lines 66-70; override is the awaited result of the
\* loaderResolver, Nullish when none is configured
SelectLoader(override, path, contentType) ==
  Coalesce(override,
    Coalesce(loaderFromPathname(PathnameOf(path)),
      Coalesce(loaderFromContentType(contentType), "js")))

\* A success test that would only reject client and server errors
ResOkBelow400(status) == status >= 200 /\ status <= 399

\* res.ok
ResOk(status) == status >= 200 /\ status <= 299

\* `GET ${args.path} failed: status ${res.status}` (src line 58)
StatusError(path, status) == "GET " \o path \o " failed: status " \o ToString(status)

\* Whether sub occurs in s
Contains(s, sub) ==
  \E i \in 1..(Len(s) - Len(sub) + 1) : SubSeq(s, i, i + Len(sub) - 1) = sub

(***************************************************************************)
(* The plugin and its host                                                 *)
(***************************************************************************)

\* params?.namespace ?? '_http_url' (src line 18)
namespace == "_http_url"

\* The entry point of a build: not a module of the plugin's namespace
Stdin == "<stdin>"

VARIABLES
  env,                \* the scenario of this run (never changes)
  graph,              \* per build: the host's module graph, key -> module
  pathToResolvedUrl,  \* per plugin object: the redirect ledger (src line 23)
  writer,             \* per plugin object: which build wrote each ledger entry
  last                \* the resolve the host has just performed, if its last
                      \* step was one (NoResolve after any other step)

vars == <<env, graph, pathToResolvedUrl, writer, last>>

NoResponse == [status |-> 0, url |-> "", contentType |-> Nullish]

\* A module the host has resolved and not yet loaded
\* (via, from: the rule and the import path that first produced its key)
Queued(rule, path) ==
  [pc |-> "queued", via |-> rule, from |-> path, timer |-> "none",
   aborted |-> FALSE, fetches |-> 0, res |-> NoResponse, bodyUsed |-> FALSE,
   override |-> Nullish, loader |-> Nullish, err |-> ""]

NoResolve ==
  [build |-> "", importer |-> "", path |-> "", rule |-> "none",
   result |-> "", namespace |-> "", dup |-> FALSE]

Init ==
  /\ env \in Scenarios
  /\ graph = [b \in Builds |-> << >>]
  /\ pathToResolvedUrl = [p \in Plugins |-> << >>]
  /\ writer = [p \in Plugins |-> << >>]
  /\ last = NoResolve

\* f with key k set to v (Map.set, or a new module in the graph)
MapSet(f, k, v) == [x \in DOMAIN f \cup {k} |-> IF x = k THEN v ELSE f[x]]

(***************************************************************************)
(* onResolve (src lines 28-41)                                             *)
(***************************************************************************)

\* filter: /^https?:\/\//
FilterAbsolute(path) == StartsWith(path, "http://") \/ StartsWith(path, "https://")

\* A resolver that would serialise the URL it is given instead of passing
\* the import path through
OnResolveAbsoluteSerialised(path, importer) ==
  [path |-> HrefOrThrow(NewURL(path)), namespace |-> namespace]

\* build.onResolve({ filter: /^https?:\/\// }, args => ...)
OnResolveAbsolute(path, importer) == [path |-> path, namespace |-> namespace]

\* A base that would ignore the ledger: always the importer's own path
BaseForImporterOnly(ledger, importer) == importer

\* pathToResolvedUrl.get(args.importer) ?? args.importer
BaseFor(ledger, importer) ==
  IF importer \in DOMAIN ledger THEN ledger[importer] ELSE importer

\* build.onResolve({ filter: /.*/, namespace }, args => ...)
OnResolveNamespaced(ledger, path, importer) ==
  [path |-> ResolveUrl(path, BaseFor(ledger, importer)), namespace |-> namespace]

\* The host runs the onResolve callbacks in the order they were registered;
\* the first whose filter (and namespace) matches decides.  "host": neither
\* matched, the import is left to the host's own resolution.
Dispatch(ledger, path, importer, ns) ==
  IF FilterAbsolute(path)
    THEN [rule |-> "absolute", result |-> OnResolveAbsolute(path, importer)]
  ELSE IF ns = namespace
    THEN [rule |-> "namespaced", result |-> OnResolveNamespaced(ledger, path, importer)]
  ELSE [rule |-> "host", result |-> [path |-> path, namespace |-> ns]]

\* The host meets an import statement `path` in `importer` (the entry point
\* or a loaded remote module), resolves it, and enters a module it does not
\* hold yet into its graph.
\* The host takes the answer r to the import `path` of `importer`: a path
\* of the plugin's namespace it does not hold yet becomes a new module
Enter(b, importer, path, r, isNew) ==
  /\ isNew => Cardinality(DOMAIN graph[b]) < MaxModules
  /\ last' = [build |-> b, importer |-> importer, path |-> path,
              rule |-> r.rule, result |-> r.result.path,
              namespace |-> r.result.namespace,
              dup |-> r.result.path \in DOMAIN graph[b]]
  /\ graph' = IF isNew
                THEN [graph EXCEPT ![b] = MapSet(@, r.result.path, Queued(r.rule, path))]
                ELSE graph

Answered(b, importer, path, r) ==
  Enter(b, importer, path, r,
        /\ r.rule # "host"
        /\ r.result.path # Throw
        /\ r.result.path \notin DOMAIN graph[b])

HostResolve(b, importer, path) ==
  /\ \/ importer = Stdin /\ path \in env.entry[b]
     \/ /\ importer \in DOMAIN graph[b]
        /\ graph[b][importer].pc = "done"
        /\ path \in env.inner
  /\ Answered(b, importer, path,
              Dispatch(pathToResolvedUrl[env.pluginOf[b]], path, importer,
                       IF importer = Stdin THEN "file" ELSE namespace))
  /\ UNCHANGED <<env, pathToResolvedUrl, writer>>

(***************************************************************************)
(* onLoad (src lines 43-73)                                                *)
(***************************************************************************)

\* Whether fetch can get a response for this path at all
FetchScheme(u) == u.ok /\ u.scheme \in {"http", "https", "data"}

Fetchable(path) == FetchScheme(NewURL(path))

\* A clearTimeout that would cancel nothing
ClearTimeoutNothing(timer) == timer

\* clearTimeout(timer): a pending timer is cancelled, nothing else changes
ClearTimeout(timer) == IF timer = "pending" THEN "cleared" ELSE timer

\* A resolved URL that would be res.url even when it is empty
EffectiveUrlAsReported(url, path) == url

\* res.url || args.path
EffectiveUrl(url, path) == IF url = "" THEN path ELSE url

\* A ledger write that would use the final URL as the key
RecordUnderFinalUrl(ledger, path, resolvedUrl) == MapSet(ledger, resolvedUrl, resolvedUrl)

\* pathToResolvedUrl.set(args.path, resolvedUrl)
Record(ledger, path, resolvedUrl) == MapSet(ledger, path, resolvedUrl)

\* The final URLs a response to a request for `path` may report: none (a
\* test double), the request URL itself, or a redirect target
FinalUrls(path) ==
  (IF "none" \in env.finals THEN {""} ELSE {})
    \cup (IF "self" \in env.finals THEN {Href(NewURL(path))} ELSE {})
    \cup env.redirects

\* Lines 44-52: log, create the timer, call fetch and wait
OnLoadStart(b, key) ==
  /\ key \in DOMAIN graph[b]
  /\ graph[b][key].pc = "queued"
  /\ graph' = [graph EXCEPT ![b][key] =
                 [@ EXCEPT !.pc = "fetch", !.timer = "pending", !.fetches = @ + 1]]
  /\ last' = NoResolve
  /\ UNCHANGED <<env, pathToResolvedUrl, writer>>

\* A timer callback that would not abort the request
OnTimeoutWithoutAbort(m) == [m EXCEPT !.timer = "fired"]

\* setTimeout(() => abortController.abort(), timeoutMs): the timer fires
OnTimeout(m) == [m EXCEPT !.timer = "fired", !.aborted = TRUE]

TimerFire(b, key) ==
  /\ env.faults
  /\ key \in DOMAIN graph[b]
  /\ graph[b][key].timer = "pending"
  /\ graph' = [graph EXCEPT ![b][key] = OnTimeout(@)]
  /\ last' = NoResolve
  /\ UNCHANGED <<env, pathToResolvedUrl, writer>>

\* The module after fetch rejected: the finally block runs, the error leaves
\* onLoad
AfterFetchRejected(m, error) ==
  [m EXCEPT !.pc = "failed", !.timer = ClearTimeout(@), !.err = error]

\* fetch rejects because the signal was aborted
AbortReject(b, key) ==
  /\ key \in DOMAIN graph[b]
  /\ graph[b][key].pc = "fetch"
  /\ graph[b][key].aborted
  /\ graph' = [graph EXCEPT ![b][key] =
                 AfterFetchRejected(@, "AbortError: This operation was aborted")]
  /\ last' = NoResolve
  /\ UNCHANGED <<env, pathToResolvedUrl, writer>>

\* fetch rejects for a reason of its own (network failure, unusable URL)
FetchReject(b, key) ==
  /\ env.faults \/ ~Fetchable(key)
  /\ key \in DOMAIN graph[b]
  /\ graph[b][key].pc = "fetch"
  /\ ~graph[b][key].aborted
  /\ graph' = [graph EXCEPT ![b][key] = AfterFetchRejected(@, "TypeError: fetch failed")]
  /\ last' = NoResolve
  /\ UNCHANGED <<env, pathToResolvedUrl, writer>>

\* A handler that would fetch again after a response that is not ok
OnNotOkRetry(m, key, status) ==
  [m EXCEPT !.pc = "fetch", !.timer = "pending", !.fetches = @ + 1]

\* Lines 57-59: the module after a response that is not ok
OnNotOk(m, key, status) ==
  [m EXCEPT !.pc = "failed", !.err = StatusError(key, status)]

\* fetch resolves with a response (headers received); lines 53-64 up to the
\* await of res.arrayBuffer()
FetchResolve(b, key) ==
  /\ key \in DOMAIN graph[b]
  /\ graph[b][key].pc = "fetch"
  /\ ~graph[b][key].aborted
  /\ Fetchable(key)
  /\ \E status \in env.statuses, url \in FinalUrls(key), contentType \in env.ctypes :
      LET p == env.pluginOf[b]
          m == [graph[b][key] EXCEPT
                  !.timer = ClearTimeout(@),
                  !.res = [status |-> status, url |-> url, contentType |-> contentType]]
      IN
      /\ IF ~ResOk(status)
           THEN /\ graph' = [graph EXCEPT ![b][key] = OnNotOk(m, key, status)]
                /\ UNCHANGED <<pathToResolvedUrl, writer>>
           ELSE /\ graph' = [graph EXCEPT ![b][key] = [m EXCEPT !.pc = "body"]]
                /\ pathToResolvedUrl' =
                     [pathToResolvedUrl EXCEPT ![p] = Record(@, key, EffectiveUrl(url, key))]
                /\ writer' = [writer EXCEPT ![p] = MapSet(@, key, b)]
  /\ last' = NoResolve
  /\ UNCHANGED env

\* Lines 66-72 once the loaderResolver (if any) has answered
Finish(m, key, override) ==
  [m EXCEPT !.pc = "done", !.override = override,
            !.loader = SelectLoader(override, key, m.res.contentType)]

\* res.arrayBuffer() resolves: the body has been read; then either the
\* loaderResolver is called and awaited, or the chain runs without it
BodyArrive(b, key) ==
  /\ key \in DOMAIN graph[b]
  /\ graph[b][key].pc = "body"
  /\ graph' = [graph EXCEPT ![b][key] =
                 IF env.resolver # {}
                   THEN [@ EXCEPT !.pc = "resolver", !.bodyUsed = TRUE]
                   ELSE Finish([@ EXCEPT !.bodyUsed = TRUE], key, Nullish)]
  /\ last' = NoResolve
  /\ UNCHANGED <<env, pathToResolvedUrl, writer>>

\* res.arrayBuffer() rejects (the connection broke while the body arrived)
BodyFail(b, key) ==
  /\ env.faults
  /\ key \in DOMAIN graph[b]
  /\ graph[b][key].pc = "body"
  /\ graph' = [graph EXCEPT ![b][key] =
                 [@ EXCEPT !.pc = "failed", !.err = "TypeError: terminated"]]
  /\ last' = NoResolve
  /\ UNCHANGED <<env, pathToResolvedUrl, writer>>

\* The loaderResolver's promise resolves with r
LoaderResolverReturn(b, key) ==
  /\ key \in DOMAIN graph[b]
  /\ graph[b][key].pc = "resolver"
  /\ \E r \in env.resolver : graph' = [graph EXCEPT ![b][key] = Finish(@, key, r)]
  /\ last' = NoResolve
  /\ UNCHANGED <<env, pathToResolvedUrl, writer>>

\* The loaderResolver throws or its promise rejects
LoaderResolverThrow(b, key) ==
  /\ env.faults
  /\ key \in DOMAIN graph[b]
  /\ graph[b][key].pc = "resolver"
  /\ graph' = [graph EXCEPT ![b][key] =
                 [@ EXCEPT !.pc = "failed", !.err = "Error: loaderResolver failed"]]
  /\ last' = NoResolve
  /\ UNCHANGED <<env, pathToResolvedUrl, writer>>

Keys(b) == DOMAIN graph[b]

Next ==
  \/ \E b \in Builds : \E importer \in {Stdin} \cup Keys(b) :
       \E path \in env.entry[b] \cup env.inner : HostResolve(b, importer, path)
  \/ \E b \in Builds : \E key \in Keys(b) : OnLoadStart(b, key)
  \/ \E b \in Builds : \E key \in Keys(b) : TimerFire(b, key)
  \/ \E b \in Builds : \E key \in Keys(b) : AbortReject(b, key)
  \/ \E b \in Builds : \E key \in Keys(b) : FetchReject(b, key)
  \/ \E b \in Builds : \E key \in Keys(b) : FetchResolve(b, key)
  \/ \E b \in Builds : \E key \in Keys(b) : BodyArrive(b, key)
  \/ \E b \in Builds : \E key \in Keys(b) : BodyFail(b, key)
  \/ \E b \in Builds : \E key \in Keys(b) : LoaderResolverReturn(b, key)
  \/ \E b \in Builds : \E key \in Keys(b) : LoaderResolverThrow(b, key)

Spec == Init /\ [][Next]_vars

(***************************************************************************)
(* Properties                                                              *)
(***************************************************************************)

\* The ledger the last resolve ran against
LedgerOfLast == pathToResolvedUrl[env.pluginOf[last.build]]

\* C1: an import path that starts with http:// or https:// is answered by
\* the absolute rule, whatever the importer and whatever the ledger holds:
\* the result is the import path itself, unchanged, in the plugin's
\* namespace.
C1_AbsoluteResolveIdentity ==
  (last.rule # "none" /\ FilterAbsolute(last.path)) =>
    /\ last.rule = "absolute"
    /\ last.result = last.path
    /\ last.namespace = namespace

\* An absolute import of a remote module whose ledger entry differs from
\* its own path has been resolved
C1_Witness ==
  /\ last.rule = "absolute"
  /\ last.importer \in DOMAIN LedgerOfLast
  /\ LedgerOfLast[last.importer] # last.importer
  /\ last.result = last.path

\* C2: an import that is not absolute, made by a module of the plugin's
\* namespace, resolves to new URL(path, base).toString() in the plugin's
\* namespace, where base is the importer's ledger entry if there is one
\* and the importer's path otherwise; so './util.js' imported by
\* https://cdn/pkg, recorded as https://cdn/pkg/index.js, resolves to
\* https://cdn/pkg/util.js.
C2_RelativeAgainstLedger ==
  last.rule = "namespaced" =>
    /\ last.namespace = namespace
    /\ last.result =
         ResolveUrl(last.path,
                    IF last.importer \in DOMAIN LedgerOfLast
                      THEN LedgerOfLast[last.importer] ELSE last.importer)
    /\ ( /\ last.importer = "https://cdn/pkg"
         /\ last.importer \in DOMAIN LedgerOfLast
         /\ LedgerOfLast[last.importer] = "https://cdn/pkg/index.js"
         /\ last.path = "./util.js" )
       => last.result = "https://cdn/pkg/util.js"

\* './util.js' of the redirected https://cdn/pkg has been resolved
C2_Witness ==
  /\ last.rule = "namespaced"
  /\ last.importer = "https://cdn/pkg"
  /\ last.importer \in DOMAIN LedgerOfLast
  /\ LedgerOfLast[last.importer] = "https://cdn/pkg/index.js"
  /\ last.path = "./util.js"
  /\ last.result = "https://cdn/pkg/util.js"

\* A bare specifier: neither an absolute http(s) URL nor a path that starts
\* with './', '../' or '/'
BareSpecifier(path) ==
  /\ ~FilterAbsolute(path)
  /\ ~StartsWith(path, "./")
  /\ ~StartsWith(path, "../")
  /\ ~StartsWith(path, "/")

\* C3: a bare specifier imported by a module of the plugin's namespace is
\* left to the host: no rule of the plugin answers it, and no module that
\* came from a bare specifier is ever requested from the network.
C3_BareSpecifierLeftToHost ==
  /\ (last.rule # "none" /\ BareSpecifier(last.path)) => last.rule = "host"
  /\ \A b \in Builds : \A key \in Keys(b) :
       BareSpecifier(graph[b][key].from) => graph[b][key].fetches = 0

\* C4: within one build at most one request is issued for a path, however
\* many imports resolve to it and whether its load succeeds or fails.
C4_AtMostOneRequest ==
  \A b \in Builds : \A key \in Keys(b) :
    /\ graph[b][key].fetches <= 1
    /\ graph[b][key].pc # "queued" => graph[b][key].fetches = 1

\* A second import has resolved to a path whose load already failed, and
\* that path has been requested once
C4_Witness ==
  /\ last.dup
  /\ graph[last.build][last.result].pc = "failed"
  /\ graph[last.build][last.result].fetches = 1

\* Two paths that denote the same URL
SameUrl(k1, k2) == HrefOrThrow(NewURL(k1)) = HrefOrThrow(NewURL(k2))

\* C5: a module reached through an absolute import and through a relative
\* import that denote the same URL is one module of the build: the two
\* imports get the same path, so that the URL is not requested twice.
C5_SameUrlSameModule ==
  \A b \in Builds : \A k1, k2 \in Keys(b) :
    ( /\ graph[b][k1].via = "absolute"
      /\ graph[b][k2].via = "namespaced"
      /\ SameUrl(k1, k2) )
    => \/ k1 = k2
       \/ graph[b][k1].fetches = 0
       \/ graph[b][k2].fetches = 0

\* What the extension table and the Content-Type table give for a loaded
\* module
FromExtension(key) == loaderFromPathname(PathnameOf(key))
FromContentType(m) == loaderFromContentType(m.res.contentType)

\* C6: the loader of a loaded module is the first non-nullish of: the
\* loaderResolver's result, the loader of the path's extension, the loader
\* of the Content-Type's media type, 'js'; so a path ending in .ts served
\* as application/javascript, with no loaderResolver result, loads as 'ts'.
C6_LoaderPriority ==
  \A b \in Builds : \A key \in Keys(b) :
    graph[b][key].pc = "done" =>
      /\ graph[b][key].loader =
           IF graph[b][key].override # Nullish THEN graph[b][key].override
           ELSE IF FromExtension(key) # Nullish THEN FromExtension(key)
           ELSE IF FromContentType(graph[b][key]) # Nullish
             THEN FromContentType(graph[b][key])
           ELSE "js"
      /\ ( /\ key = "https://example.com/mod.ts"
           /\ graph[b][key].res.contentType = "application/javascript"
           /\ graph[b][key].override = Nullish )
         => graph[b][key].loader = "ts"

\* mod.ts served as application/javascript has been loaded as 'ts' after
\* a loaderResolver returned nothing
C6_Witness ==
  \E b \in Builds :
    /\ "https://example.com/mod.ts" \in Keys(b)
    /\ env.resolver # {}
    /\ graph[b]["https://example.com/mod.ts"].pc = "done"
    /\ graph[b]["https://example.com/mod.ts"].override = Nullish
    /\ graph[b]["https://example.com/mod.ts"].res.contentType = "application/javascript"
    /\ graph[b]["https://example.com/mod.ts"].loader = "ts"

\* The media types loaderFromContentType has a case for
ContentTypeKeys ==
  {"application/javascript", "text/javascript", "application/typescript",
   "text/typescript", "application/json", "text/json", "text/css", "text/plain"}

MediaType(contentType) ==
  IF contentType = Nullish THEN Nullish
  ELSE ToLowerCase(Trim(SplitFirst(contentType, ";")))

\* C7: with no loaderResolver, the loader of every loaded module is one of
\* js, ts, jsx, tsx, json, css, text, and it is 'js' when the path's
\* extension is no key of the extension table and the media type is no key
\* of the Content-Type table.
C7_LoaderInUnion ==
  \A b \in Builds : \A key \in Keys(b) :
    (graph[b][key].pc = "done" /\ env.resolver = {}) =>
      /\ graph[b][key].loader \in Loaders
      /\ ( /\ ExtensionOf(PathnameOf(key)) \notin DOMAIN EXT_TO_LOADER
           /\ MediaType(graph[b][key].res.contentType) \notin ContentTypeKeys )
         => graph[b][key].loader = "js"

\* C8: a response whose status is outside 200..299 fails the load with an
\* error that names the path and the status; the module gets no loader,
\* its body is not read and no second request is made.
C8_NotOkFails ==
  \A b \in Builds : \A key \in Keys(b) :
    ( /\ graph[b][key].res # NoResponse
      /\ ~(graph[b][key].res.status >= 200 /\ graph[b][key].res.status <= 299) )
    => /\ graph[b][key].pc = "failed"
       /\ Contains(graph[b][key].err, key)
       /\ Contains(graph[b][key].err, ToString(graph[b][key].res.status))
       /\ graph[b][key].loader = Nullish
       /\ ~graph[b][key].bodyUsed
       /\ graph[b][key].fetches = 1

\* A load has failed on a 404 and one on a 300, each with its message
C8_Witness ==
  \E b \in Builds : \E k1, k2 \in Keys(b) :
    /\ graph[b][k1].pc = "failed"
    /\ graph[b][k1].res.status = 404
    /\ graph[b][k1].err = "GET " \o k1 \o " failed: status 404"
    /\ graph[b][k2].pc = "failed"
    /\ graph[b][k2].res.status = 300

\* C10: the ledger is scoped to one build: a resolve of one build never
\* reads a ledger entry that a load of another build recorded, also when
\* both builds were given the same plugin object.
C10_LedgerPerBuild ==
  (last.rule = "namespaced" /\ last.importer \in DOMAIN LedgerOfLast) =>
    writer[env.pluginOf[last.build]][last.importer] = last.build

(***************************************************************************)
(* Progress of the timer and of an aborted request                         *)
(***************************************************************************)

\* The runs in which a request may go unanswered, of builds with a single
\* entry import
LiveInit ==
  /\ Init
  /\ env.faults
  /\ \A b \in Builds : Cardinality(env.entry[b]) <= 1

\* The event loop runs the callback of a timer that stays pending, and
\* fetch rejects once its signal has been aborted
Fairness ==
  /\ WF_vars(\E b \in Builds : \E key \in Keys(b) : TimerFire(b, key))
  /\ WF_vars(\E b \in Builds : \E key \in Keys(b) : AbortReject(b, key))

LiveSpec == LiveInit /\ [][Next]_vars /\ Fairness

Outstanding(b, key) == graph[b][key].pc = "fetch"

AbortFailed(b, key) ==
  /\ graph[b][key].pc = "failed"
  /\ graph[b][key].err = "AbortError: This operation was aborted"
  /\ graph[b][key].res = NoResponse

\* The request is over and its timer is not pending; if the timer fired,
\* the load failed with the abort error
Settled(b, key) ==
  /\ graph[b][key].pc \notin {"queued", "fetch"}
  /\ graph[b][key].timer # "pending"
  /\ graph[b][key].timer = "fired" => AbortFailed(b, key)

SomeOutstanding == \E b \in Builds : \E key \in Keys(b) : Outstanding(b, key)

\* Every load that has started is settled
AllSettled ==
  \A b \in Builds : \A key \in Keys(b) :
    graph[b][key].pc = "queued" \/ Settled(b, key)

\* C9: a request that gets no response before the timer fires is aborted
\* by the timer and its load fails with the abort error; no request stays
\* outstanding for ever: whenever requests are outstanding, a state follows
\* in which every started load is over, with no timer pending, and has
\* failed with the abort error if its timer fired.
C9_TimeoutAborts == SomeOutstanding ~> AllSettled

\* A load has failed with the abort error after its timer fired
C9_Witness ==
  \E b \in Builds : \E key \in Keys(b) :
    Settled(b, key) /\ graph[b][key].timer = "fired"

(***************************************************************************)
(* The timer, the body and the ledger                                      *)
(***************************************************************************)

SomeBodyAwaited == \E b \in Builds : \E key \in Keys(b) : graph[b][key].pc = "body"

NoBodyAwaited == \A b \in Builds : \A key \in Keys(b) : graph[b][key].pc # "body"

\* C11: a response whose headers arrived but whose body never finishes is
\* still ended by the timer: whenever a load waits for a body, a state
\* follows in which no load waits for a body.
C11_BodyWithinDeadline == SomeBodyAwaited ~> NoBodyAwaited

\* C12: a load that is over, however it ended, has no timer pending, and a
\* timer fires only for a request that is still outstanding: a module whose
\* timer fired never received a response.
C12_TimerClearedOnExit ==
  \A b \in Builds : \A key \in Keys(b) :
    /\ graph[b][key].pc \in {"done", "failed"} => graph[b][key].timer # "pending"
    /\ graph[b][key].timer = "fired" =>
         /\ graph[b][key].res = NoResponse
         /\ graph[b][key].pc \in {"fetch", "failed"}

\* One build holds a load that succeeded, one that failed on its status,
\* and one that failed after its timer fired
C12_Witness ==
  \E b \in Builds : \E k1, k2, k3 \in Keys(b) :
    /\ graph[b][k1].pc = "done" /\ graph[b][k1].timer = "cleared"
    /\ graph[b][k2].pc = "failed" /\ graph[b][k2].res.status = 404
    /\ graph[b][k2].timer = "cleared"
    /\ graph[b][k3].pc = "failed" /\ graph[b][k3].timer = "fired"

\* The ledger entry of key was written by build b's load of key
WroteEntry(b, key) ==
  /\ key \in DOMAIN pathToResolvedUrl[env.pluginOf[b]]
  /\ writer[env.pluginOf[b]][key] = b

\* C13: a load that failed, for whatever reason, has written no ledger
\* entry.
C13_FailedLoadLeavesLedger ==
  \A b \in Builds : \A key \in Keys(b) :
    graph[b][key].pc = "failed" => ~WroteEntry(b, key)

\* C14: when a load has written its ledger entry, the body of its response
\* has been read completely.
C14_RecordAfterBody ==
  \A b \in Builds : \A key \in Keys(b) :
    WroteEntry(b, key) => graph[b][key].bodyUsed

\* The response of the load that wrote the ledger entry of key
ResponseRecorded(p, key) == graph[writer[p][key]][key].res

\* A step that creates or changes the ledger entry of k is the step of a
\* load of k, by a build given that plugin object, receiving its response
EntryWrittenByLoadOf(p, k) ==
  ( \/ k \notin DOMAIN pathToResolvedUrl[p]
    \/ pathToResolvedUrl'[p][k] # pathToResolvedUrl[p][k] )
  => \E b \in Builds :
       /\ env.pluginOf[b] = p
       /\ k \in Keys(b)
       /\ graph[b][k].pc = "fetch"
       /\ graph'[b][k].pc = "body"

\* C15: the ledger maps a requested path to the final URL its response
\* reported, or to the path itself when the response reported none; an
\* entry is created or changed only under the path a load requested, by
\* that load, and a step leaves every other entry as it was.
C15_LedgerEntry ==
  /\ [](\A p \in Plugins : \A key \in DOMAIN pathToResolvedUrl[p] :
          pathToResolvedUrl[p][key] =
            IF ResponseRecorded(p, key).url = "" THEN key
            ELSE ResponseRecorded(p, key).url)
  /\ [][\A p \in Plugins : \A k \in DOMAIN pathToResolvedUrl'[p] :
          EntryWrittenByLoadOf(p, k)]_vars

\* The ledger holds a redirected path under its final URL and a path whose
\* response reported no final URL under itself
C15_Witness ==
  \E p \in Plugins : \E k1, k2 \in DOMAIN pathToResolvedUrl[p] :
    /\ pathToResolvedUrl[p][k1] = "https://cdn/pkg/index.js"
    /\ k1 = "https://cdn/pkg"
    /\ "https://cdn/pkg/index.js" \notin DOMAIN pathToResolvedUrl[p]
    /\ ResponseRecorded(p, k2).url = ""
    /\ pathToResolvedUrl[p][k2] = k2

\* C16: when the relative rule runs for an import of A, the load of A has
\* completed and the ledger holds an entry under A's own path, whatever
\* other loads and resolves are under way.
C16_RecordBeforeResolve ==
  last.rule = "namespaced" =>
    /\ last.importer \in Keys(last.build)
    /\ graph[last.build][last.importer].pc = "done"
    /\ last.importer \in DOMAIN LedgerOfLast

\* An import of a redirected module has been resolved while another load of
\* the same build was waiting for its response
C16_Witness ==
  /\ last.rule = "namespaced"
  /\ last.importer \in DOMAIN LedgerOfLast
  /\ LedgerOfLast[last.importer] # last.importer
  /\ \E key \in Keys(last.build) : graph[last.build][key].pc = "fetch"

\* A fully-qualified URL of scheme http or https
HttpUrl(path) == NewURL(path).ok /\ NewURL(path).scheme \in {"http", "https"}

\* C17: every path the plugin has put in its namespace, and so every path
\* it requests from the network, is an absolute http or https URL.
C17_NamespaceHoldsHttpUrls ==
  \A b \in Builds : \A key \in Keys(b) : HttpUrl(key)

\* C18: while the loaderResolver runs, the plugin has not consumed the
\* body of the response it was given.
C18_ResolverSeesUnreadBody ==
  \A b \in Builds : \A key \in Keys(b) :
    graph[b][key].pc = "resolver" => ~graph[b][key].bodyUsed

\* The extension table's entry for ext, none when ext is not one of its keys
TableLoader(ext) ==
  IF ext \in DOMAIN EXT_TO_LOADER THEN EXT_TO_LOADER[ext] ELSE Nullish

\* C19: extension inference gives the table's entry for the lower-cased
\* text after the last '.' of the last segment of the path component, and
\* nothing when there is no such text or it is no key of the table; the
\* chain then falls through to Content-Type inference.
C19_ExtensionInference ==
  \A b \in Builds : \A key \in Keys(b) :
    graph[b][key].pc = "done" =>
      /\ FromExtension(key) = TableLoader(ExtensionOf(PathnameOf(key)))
      /\ ( /\ TableLoader(ExtensionOf(PathnameOf(key))) = Nullish
           /\ graph[b][key].override = Nullish )
         => graph[b][key].loader = Coalesce(FromContentType(graph[b][key]), "js")

\* The loader of each media type the Content-Type inference knows
ContentTypeTable ==
  [t \in ContentTypeKeys |->
     CASE t \in {"application/javascript", "text/javascript"} -> "js"
       [] t \in {"application/typescript", "text/typescript"} -> "ts"
       [] t \in {"application/json", "text/json"}             -> "json"
       [] t = "text/css"                                      -> "css"
       [] t = "text/plain"                                    -> "text"]

\* The Content-Type headers the responses of the runs carry, with the media
\* type of each and what the inference gives for it
ContentTypesMet == UNION {sc.ctypes : sc \in Scenarios}

MediaTypeOf == [ct \in ContentTypesMet |-> MediaType(ct)]

InferredFrom == [ct \in ContentTypesMet |-> loaderFromContentType(ct)]

\* C20: Content-Type inference gives the loader of the media type, the
\* header value before its first ';', trimmed and lower-cased, and nothing
\* for an absent or unknown type; so a path without extension served as
\* 'application/typescript; charset=utf-8' loads as 'ts'.
C20_ContentTypeInference ==
  \A b \in Builds : \A key \in Keys(b) :
    graph[b][key].res # NoResponse =>
      /\ InferredFrom[graph[b][key].res.contentType] =
           IF MediaTypeOf[graph[b][key].res.contentType] \in ContentTypeKeys
             THEN ContentTypeTable[MediaTypeOf[graph[b][key].res.contentType]]
             ELSE Nullish
      /\ ( /\ graph[b][key].pc = "done"
           /\ graph[b][key].override = Nullish
           /\ ExtensionOf(PathnameOf(key)) = Nullish
           /\ graph[b][key].res.contentType = "application/typescript; charset=utf-8" )
         => graph[b][key].loader = "ts"

\* https://example.com/mod served as 'application/typescript; charset=utf-8'
\* has been loaded as 'ts'
C20_Witness ==
  \E b \in Builds :
    /\ "https://example.com/mod" \in Keys(b)
    /\ graph[b]["https://example.com/mod"].pc = "done"
    /\ graph[b]["https://example.com/mod"].override = Nullish
    /\ graph[b]["https://example.com/mod"].res.contentType =
         "application/typescript; charset=utf-8"
    /\ graph[b]["https://example.com/mod"].loader = "ts"
=============================================================================
